---- MODULE Spec2Model ----
(***************************************************************************)
(* A model of src/src/hla.rs: the HLA allele designation parser            *)
(* (AlleleParser::parse), the allele database query                        *)
(* (AlleleDb::lowest_common_allele) and the FASTA ingestion loop           *)
(* (read_hla_cds).                                                         *)
(*                                                                         *)
(* Text is modelled as a sequence of one-character strings, so that the    *)
(* regular expressions, the splits and the decimal conversion are          *)
(* computed character by character as the code computes them.              *)
(* Option<T> is a sequence of length 0 (None) or 1 (Some).                 *)
(***************************************************************************)
EXTENDS Integers, Sequences, FiniteSets, TLC

VARIABLES
    pc,                 \* position of the running call
    s,                  \* AlleleParser::parse: the argument
    pres,               \* AlleleParser::parse: what the call produced
    alleles,            \* AlleleDb.alleles
    eq_classes,         \* lowest_common_allele: the argument of the last call
    lres,               \* lowest_common_allele: what the last call returned
    stream,             \* read_hla_cds: what reader.records() yields, in order
    pos,                \* read_hla_cds: number of items taken from the reader
    seqs,               \* read_hla_cds: local seqs
    tx_ids,             \* read_hla_cds: local tx_ids
    tx_to_allele_map,   \* read_hla_cds: local tx_to_allele_map
    transcript_counter, \* read_hla_cds: local transcript_counter
    ires                \* read_hla_cds: what the call produced

vars == <<pc, s, pres, alleles, eq_classes, lres, stream, pos, seqs, tx_ids,
          tx_to_allele_map, transcript_counter, ires>>

parseVars == <<s, pres>>
lcaVars == <<alleles, eq_classes, lres>>
ingestVars == <<stream, pos, seqs, tx_ids, tx_to_allele_map, transcript_counter, ires>>

----------------------------------------------------------------------------
(* Bounds of the model. *)

\* longest arbitrary text handed to parse
MaxLen == 5
\* most colon-separated groups in a generated designation
MaxGroups == 5
\* most alleles in the database
MaxDb == 2
\* most ids in one lowest_common_allele query
MaxIds == 2
\* most records in a FASTA stream
MaxRecords == 3

----------------------------------------------------------------------------
(* Option, Result and the outcomes of a call. *)

None == <<>>
Some(x) == <<x>>
IsSome(o) == Len(o) = 1
Unwrap(o) == o[1]

Ok(v) == [tag |-> "Ok", val |-> v]
Err(kind, text) == [tag |-> "Err", val |-> [kind |-> kind, text |-> text]]
\* a panic: the call unwinds and returns nothing
Panic == [tag |-> "Panic", val |-> <<>>]
\* the call has not finished
Pending == [tag |-> "Pending", val |-> <<>>]

Min(S) == CHOOSE x \in S : \A y \in S : x <= y
Max(S) == CHOOSE x \in S : \A y \in S : x >= y

----------------------------------------------------------------------------
(* Characters. *)

Upper == {"A", "B", "C", "D", "E", "F", "G", "H", "I", "J", "K", "L", "M",
          "N", "O", "P", "Q", "R", "S", "T", "U", "V", "W", "X", "Y", "Z"}
Digit == {"0", "1", "2", "3", "4", "5", "6", "7", "8", "9"}

DigitVal(c) ==
    CASE c = "0" -> 0 [] c = "1" -> 1 [] c = "2" -> 2 [] c = "3" -> 3
      [] c = "4" -> 4 [] c = "5" -> 5 [] c = "6" -> 6 [] c = "7" -> 7
      [] c = "8" -> 8 [] c = "9" -> 9

\* largest value of a u16
U16_MAX == 65535

----------------------------------------------------------------------------
(* Regex::new("^[A-Z0-9]+[*][0-9]+(:[0-9]+)*[A-Z]?$"), as its automaton:    *)
(*   0 -[A-Z0-9]-> 1 -[A-Z0-9]-> 1 -*-> 2 -[0-9]-> 3 -[0-9]-> 3            *)
(*   3 -:-> 4 -[0-9]-> 3,  3 -[A-Z]-> 5;  accepting at the end: 3, 5.      *)

\* the automaton with a comma taken for a group separator as well
valid_regex_step_mut(q, c) ==
    CASE q = 0 -> IF c \in Upper \cup Digit THEN {1} ELSE {}
      [] q = 1 -> (IF c \in Upper \cup Digit THEN {1} ELSE {})
                    \cup (IF c = "*" THEN {2} ELSE {})
      [] q = 2 -> IF c \in Digit THEN {3} ELSE {}
      [] q = 3 -> (IF c \in Digit THEN {3} ELSE {})
                    \cup (IF c \in {":", ","} THEN {4} ELSE {})
                    \cup (IF c \in Upper THEN {5} ELSE {})
      [] q = 4 -> IF c \in Digit THEN {3} ELSE {}
      [] q = 5 -> {}

valid_regex_step(q, c) ==
    CASE q = 0 -> IF c \in Upper \cup Digit THEN {1} ELSE {}
      [] q = 1 -> (IF c \in Upper \cup Digit THEN {1} ELSE {})
                    \cup (IF c = "*" THEN {2} ELSE {})
      [] q = 2 -> IF c \in Digit THEN {3} ELSE {}
      [] q = 3 -> (IF c \in Digit THEN {3} ELSE {})
                    \cup (IF c = ":" THEN {4} ELSE {})
                    \cup (IF c \in Upper THEN {5} ELSE {})
      [] q = 4 -> IF c \in Digit THEN {3} ELSE {}
      [] q = 5 -> {}

\* Regex::is_match of valid_regex: anchored at both ends
valid_regex_is_match(t) ==
    LET run[k \in 0..Len(t)] ==
            IF k = 0 THEN {0}
            ELSE UNION {valid_regex_step(q, t[k]) : q \in run[k - 1]}
    IN  run[Len(t)] \cap {3, 5} # {}

(* Regex::new("[0-9]+(:[0-9]+)*"), as its automaton:                        *)
(*   0 -[0-9]-> 1 -[0-9]-> 1 -:-> 2 -[0-9]-> 1;  accepting: 1.             *)
field_regex_step(q, c) ==
    CASE q = 0 -> IF c \in Digit THEN {1} ELSE {}
      [] q = 1 -> (IF c \in Digit THEN {1} ELSE {})
                    \cup (IF c = ":" THEN {2} ELSE {})
      [] q = 2 -> IF c \in Digit THEN {1} ELSE {}

\* the ends j of the matches of field_regex that start at position i of t
field_regex_ends(t, i) ==
    LET run[k \in (i - 1)..Len(t)] ==
            IF k = i - 1 THEN {0}
            ELSE UNION {field_regex_step(q, t[k]) : q \in run[k - 1]}
    IN  {j \in i..Len(t) : 1 \in run[j]}

\* Regex::find of field_regex: the leftmost match, taken greedily; Some(text)
field_regex_find(t) ==
    LET starts == {i \in 1..Len(t) : field_regex_ends(t, i) # {}}
    IN  IF starts = {} THEN None
        ELSE LET i == Min(starts)
             IN  Some(SubSeq(t, i, Max(field_regex_ends(t, i))))

----------------------------------------------------------------------------
(* str::split: the pieces between the occurrences of a one-character        *)
(* separator, in order; a text without the separator is one piece.         *)

RECURSIVE split(_, _)
split(t, sep) ==
    LET at == {i \in 1..Len(t) : t[i] = sep}
    IN  IF at = {} THEN <<t>>
        ELSE <<SubSeq(t, 1, Min(at) - 1)>>
                 \o split(SubSeq(t, Min(at) + 1, Len(t)), sep)

\* Iterator::next, the k-th call on a fresh iterator over items
iter_next(items, k) == IF k <= Len(items) THEN Some(items[k]) ELSE None

(* u16::from_str: a decimal text to a u16; None for Err(ParseIntError):    *)
(* an empty text, a character that is no digit, or a value above u16::MAX  *)
(* (each step is a checked multiply and add).                              *)

\* the conversion with u16::MAX itself refused
u16_from_str_mut(t) ==
    LET acc[k \in 0..Len(t)] ==
            IF k = 0 THEN Some(0)
            ELSE IF ~IsSome(acc[k - 1]) THEN None
            ELSE IF t[k] \notin Digit THEN None
            ELSE LET v == Unwrap(acc[k - 1]) * 10 + DigitVal(t[k])
                 IN  IF v >= U16_MAX THEN None ELSE Some(v)
    IN  IF t = <<>> THEN None ELSE acc[Len(t)]

u16_from_str(t) ==
    LET acc[k \in 0..Len(t)] ==
            IF k = 0 THEN Some(0)
            ELSE IF ~IsSome(acc[k - 1]) THEN None
            ELSE IF t[k] \notin Digit THEN None
            ELSE LET v == Unwrap(acc[k - 1]) * 10 + DigitVal(t[k])
                 IN  IF v > U16_MAX THEN None ELSE Some(v)
    IN  IF t = <<>> THEN None ELSE acc[Len(t)]

Allele(gene, f1, f2, f3, f4) ==
    [gene |-> gene, f1 |-> f1, f2 |-> f2, f3 |-> f3, f4 |-> f4]

(* AlleleParser::parse, lines 88 to 91: the first four items of flds, each  *)
(* through u16::from_str(..).unwrap(); <<>> when an unwrap panics, else the *)
(* four fields <<f1, f2, f3, f4>> with f1 a number and f2..f4 options.      *)

\* the fields with every item of flds converted, not only the first four
parse_fields_mut(flds) ==
    LET fld(k) == IF IsSome(iter_next(flds, k))
                  THEN Some(u16_from_str(Unwrap(iter_next(flds, k))))
                  ELSE None
        panics == \E k \in 1..Len(flds) : IsSome(fld(k)) /\ ~IsSome(Unwrap(fld(k)))
        val(k) == IF IsSome(fld(k)) THEN Some(Unwrap(Unwrap(fld(k)))) ELSE None
    IN  IF ~IsSome(fld(1)) \/ panics THEN <<>>
        ELSE <<Unwrap(val(1)), val(2), val(3), val(4)>>

parse_fields(flds) ==
    LET \* Option<Result<u16>>: the k-th next(), mapped through from_str
        fld(k) == IF IsSome(iter_next(flds, k))
                  THEN Some(u16_from_str(Unwrap(iter_next(flds, k))))
                  ELSE None
        \* .unwrap() of a None or of an Err panics
        panics == \E k \in 1..4 : IsSome(fld(k)) /\ ~IsSome(Unwrap(fld(k)))
        val(k) == IF IsSome(fld(k)) THEN Some(Unwrap(Unwrap(fld(k)))) ELSE None
    IN  IF ~IsSome(fld(1)) \/ panics THEN <<>>
        ELSE <<Unwrap(val(1)), val(2), val(3), val(4)>>

(* AlleleParser::parse *)
parse(t) ==
    IF ~valid_regex_is_match(t)
    THEN Err("invalid allele string", t)
    ELSE
    LET star_split == split(t, "*")
        gene == iter_next(star_split, 1)
        suffix == iter_next(star_split, 2)
    IN  IF ~IsSome(gene) THEN Err("no split", t)
        ELSE IF ~IsSome(suffix) THEN Err("invalid allele no star separator", t)
        ELSE
        LET found == field_regex_find(Unwrap(suffix))
        IN  IF ~IsSome(found) THEN Err("no alleles found", t)
            ELSE
            LET f == parse_fields(split(Unwrap(found), ":"))
            IN  IF f = <<>> THEN Panic
                ELSE Ok(Allele(Unwrap(gene), f[1], f[2], f[3], f[4]))

----------------------------------------------------------------------------
(* The arguments parse is called with: every text of at most MaxLen         *)
(* characters over a small alphabet, and designations put together from a   *)
(* gene, one to MaxGroups digit groups and an optional suffix letter.       *)

Alphabet == {"A", "1", "*", ":", ",", "a"}

Texts == UNION {[1..n -> Alphabet] : n \in 0..MaxLen}

Genes == {<<"A">>, <<"D", "R", "B", "1">>}
GroupTexts == {<<"1">>, <<"0", "1", "2">>, <<"6", "5", "5", "3", "5">>,
               <<"6", "5", "5", "3", "6">>}
Suffixes == {<<>>, <<"L">>}

RECURSIVE join(_, _)
join(items, sep) ==
    IF Len(items) = 1 THEN items[1]
    ELSE items[1] \o <<sep>> \o join(Tail(items), sep)

Designations ==
    {g \o <<"*">> \o join(grp, ":") \o x :
        g \in Genes, grp \in UNION {[1..n -> GroupTexts] : n \in 1..MaxGroups},
        x \in Suffixes}

IdleParse == s = <<>> /\ pres = Pending
IdleLca == alleles = <<>> /\ eq_classes = <<>> /\ lres = Pending
IdleIngest ==
    /\ stream = <<>> /\ pos = 0 /\ seqs = <<>> /\ tx_ids = <<>>
    /\ tx_to_allele_map = <<>> /\ transcript_counter = 0 /\ ires = Pending

InitParse ==
    /\ pc = "parse"
    /\ s \in Texts \cup Designations
    /\ pres = Pending
    /\ IdleLca /\ IdleIngest

\* one call of AlleleParser::parse
ParseCall ==
    /\ pc = "parse"
    /\ pres' = parse(s)
    /\ pc' = IF pres'.tag = "Panic" THEN "panicked" ELSE "returned"
    /\ UNCHANGED <<s, lcaVars, ingestVars>>

NextParse == ParseCall

SpecParse == InitParse /\ [][NextParse]_vars

----------------------------------------------------------------------------
(* AlleleDb. Ids are 0-based, as in the code: id c names alleles[c + 1].    *)

all_same(items) ==
    LET first_item == iter_next(items, 1)
        loop[k \in 2..(Len(items) + 1)] ==
            LET next_item == iter_next(items, k)
            IN  IF ~IsSome(next_item) THEN first_item
                ELSE IF next_item # first_item THEN None
                ELSE loop[k + 1]
    IN  loop[2]

\* lowest_common_allele without the branch for a unique hit
lowest_common_allele_mut(db, ids) ==
    IF Len(ids) = 0 THEN None
    ELSE LET gene == all_same([k \in 1..Len(ids) |-> db[ids[k] + 1].gene])
             f1 == all_same([k \in 1..Len(ids) |-> db[ids[k] + 1].f1])
         IN  None

(* AlleleDb::lowest_common_allele: gene and f1 are computed and dropped *)
lowest_common_allele(db, ids) ==
    IF Len(ids) = 0 THEN None
    ELSE IF Len(ids) = 1 THEN Some(db[ids[1] + 1])
    ELSE LET gene == all_same([k \in 1..Len(ids) |-> db[ids[k] + 1].gene])
             f1 == all_same([k \in 1..Len(ids) |-> db[ids[k] + 1].f1])
         IN  None

(* The alleles a database holds are parsed designations: f2..f4 are present *)
(* only after the fields before them.                                       *)
DbGenes == {<<"A">>, <<"B">>}
DbTails == {<<None, None, None>>, <<Some(1), None, None>>, <<Some(2), None, None>>,
            <<Some(1), Some(1), None>>, <<Some(1), Some(1), Some(1)>>}
DbAlleles ==
    {Allele(g, f1, x[1], x[2], x[3]) : g \in DbGenes, f1 \in {1, 2}, x \in DbTails}

InitLca ==
    /\ pc = "db"
    /\ alleles \in UNION {[1..n -> DbAlleles] : n \in 0..MaxDb}
    /\ eq_classes = <<>>
    /\ lres = Pending
    /\ IdleParse /\ IdleIngest

\* one call of lowest_common_allele with in-range ids; the database is
\* read-only, so one call stands for each of the calls made on it
Query ==
    /\ pc = "db"
    /\ \E ids \in UNION {[1..n -> 0..(Len(alleles) - 1)] : n \in 0..MaxIds} :
        /\ eq_classes' = ids
        /\ lres' = Ok(lowest_common_allele(alleles, ids))
    /\ pc' = "returned"
    /\ UNCHANGED <<alleles, parseVars, ingestVars>>

NextLca == Query

SpecLca == InitLca /\ [][NextLca]_vars

----------------------------------------------------------------------------
(* read_hla_cds. The reader yields items in order: a record (id, optional   *)
(* description, sequence bytes) or an error of the underlying source.       *)

Record(id, desc, seq) == [kind |-> "record", id |-> id, desc |-> desc, seq |-> seq]
SourceError == [kind |-> "error", id |-> <<>>, desc |-> None, seq |-> <<>>]

(* DnaString::from_acgt_bytes_hashn(seq, id): two bits per base; a byte     *)
(* that is none of A, C, G, T becomes a base drawn from a hash of the id    *)
(* and the position (the hash is abstracted).                               *)
from_acgt_bytes_hashn(seq, id) ==
    [k \in 1..Len(seq) |->
        CASE seq[k] = "A" -> 0 [] seq[k] = "C" -> 1
          [] seq[k] = "G" -> 2 [] seq[k] = "T" -> 3
          [] OTHER -> (Len(id) + k) % 4]

\* record.desc() as Some(""), where the code takes it as it is
require_desc_mut(desc) ==
    IF IsSome(desc) THEN Ok(Unwrap(desc)) ELSE Ok(<<>>)

\* record.desc().ok_or_else(|| format_err!("no HLA allele"))
require_desc(desc) ==
    IF IsSome(desc) THEN Ok(Unwrap(desc)) ELSE Err("no HLA allele", <<>>)

\* HashMap::insert that keeps an entry already there
map_insert_mut(m, k, v) ==
    [x \in DOMAIN m \cup {k} |-> IF x \in DOMAIN m THEN m[x] ELSE v]

\* HashMap::insert: the new value replaces an entry under the same key
map_insert(m, k, v) ==
    [x \in DOMAIN m \cup {k} |-> IF x = k THEN v ELSE m[x]]

Ids == {<<"t", "1">>, <<"t", "2">>}
Seqs == {<<"A", "C", "G", "T">>, <<"A", "N">>}
Descs == {None,
          Some(<<"A", "*", "0", "1", ":", "0", "1", " ", "b", "p">>),
          Some(<<"B", "*", "0", "2">>),
          Some(<<"A", "*", "1", ",", "5">>),
          Some(<<"A", "*", "6", "5", "5", "3", "6">>)}
Items == {Record(i, d, q) : i \in Ids, d \in Descs, q \in Seqs} \cup {SourceError}

InitIngest ==
    /\ pc = "loop"
    /\ stream \in UNION {[1..n -> Items] : n \in 0..MaxRecords}
    /\ pos = 0
    /\ seqs = <<>>
    /\ tx_ids = <<>>
    /\ tx_to_allele_map = <<>>
    /\ transcript_counter = 0
    /\ ires = Pending
    /\ IdleParse /\ IdleLca

\* one iteration of the loop over reader.records()
ReadRecord ==
    /\ pc = "loop"
    /\ pos < Len(stream)
    /\ pos' = pos + 1
    /\ LET result == stream[pos + 1]
           dna_string == from_acgt_bytes_hashn(result.seq, result.id)
           desc == require_desc(result.desc)
           token == iter_next(split(desc.val, " "), 1)
           allele == parse(Unwrap(token))
       IN  IF result.kind = "error"
           THEN /\ ires' = Err("source", <<>>)
                /\ pc' = "returned"
                /\ UNCHANGED <<seqs, tx_ids, tx_to_allele_map, transcript_counter>>
           ELSE
           /\ seqs' = Append(seqs, dna_string)
           /\ IF desc.tag = "Err"
              THEN /\ ires' = desc
                   /\ pc' = "returned"
                   /\ UNCHANGED <<tx_ids, tx_to_allele_map, transcript_counter>>
              ELSE IF ~IsSome(token)
              THEN /\ ires' = Err("no HLA allele", <<>>)
                   /\ pc' = "returned"
                   /\ UNCHANGED <<tx_ids, tx_to_allele_map, transcript_counter>>
              ELSE IF allele.tag # "Ok"
              THEN /\ ires' = allele
                   /\ pc' = IF allele.tag = "Panic" THEN "panicked" ELSE "returned"
                   /\ UNCHANGED <<tx_ids, tx_to_allele_map, transcript_counter>>
              ELSE /\ tx_ids' = Append(tx_ids, Unwrap(token))
                   /\ tx_to_allele_map' =
                          map_insert(tx_to_allele_map, result.id, allele.val)
                   /\ transcript_counter' = transcript_counter + 1
                   /\ UNCHANGED <<pc, ires>>
    /\ UNCHANGED <<stream, parseVars, lcaVars>>

\* the reader is exhausted: Ok((seqs, tx_ids, tx_to_allele_map))
Finish ==
    /\ pc = "loop"
    /\ pos = Len(stream)
    /\ ires' = Ok([seqs |-> seqs, tx_ids |-> tx_ids,
                   tx_to_allele_map |-> tx_to_allele_map])
    /\ pc' = "returned"
    /\ UNCHANGED <<stream, pos, seqs, tx_ids, tx_to_allele_map,
                   transcript_counter, parseVars, lcaVars>>

NextIngest == ReadRecord \/ Finish

SpecIngest == InitIngest /\ [][NextIngest]_vars

----------------------------------------------------------------------------
(* The designation grammar  ^[A-Z0-9]+\*[0-9]+(:[0-9]+)*[A-Z]?$  stated on   *)
(* the text itself, and what it says the parts of a designation are.        *)

\* where the numeric part of t ends, given the position i of the '*'
NumericEnd(t, i) ==
    IF Len(t) > i /\ t[Len(t)] \in Upper THEN Len(t) - 1 ELSE Len(t)

MatchesGrammar(t) ==
    \E i \in 2..Len(t) :
        /\ t[i] = "*"
        /\ \A k \in 1..(i - 1) : t[k] \in Upper \cup Digit
        /\ LET e == NumericEnd(t, i)
           IN  /\ e > i
               /\ \A k \in (i + 1)..e : t[k] \in Digit \cup {":"}
               /\ t[i + 1] \in Digit /\ t[e] \in Digit
               /\ \A k \in (i + 1)..(e - 1) : ~(t[k] = ":" /\ t[k + 1] = ":")

StarAt(t) == CHOOSE i \in 1..Len(t) : t[i] = "*"
GrammarGene(t) == SubSeq(t, 1, StarAt(t) - 1)
NumericPart(t) == SubSeq(t, StarAt(t) + 1, NumericEnd(t, StarAt(t)))

\* the digit groups of the numeric part, in order
GrammarGroups(t) ==
    LET b == NumericPart(t)
        colons == {i \in 1..Len(b) : b[i] = ":"}
        \* the k-th boundary: 0, then the colons in order, then Len(b) + 1
        bound(k) == IF k = 0 THEN 0
                    ELSE IF k > Cardinality(colons) THEN Len(b) + 1
                    ELSE CHOOSE c \in colons :
                             Cardinality({d \in colons : d < c}) = k - 1
    IN  [k \in 1..(Cardinality(colons) + 1) |->
            SubSeq(b, bound(k - 1) + 1, bound(k) - 1)]

\* the number a digit group writes
NumVal(g) ==
    LET v[k \in 0..Len(g)] == IF k = 0 THEN 0 ELSE v[k - 1] * 10 + DigitVal(g[k])
    IN  v[Len(g)]

\* the groups parse keeps: the first four
Retained(t) ==
    LET g == GrammarGroups(t) IN SubSeq(g, 1, IF Len(g) > 4 THEN 4 ELSE Len(g))
FitsU16(t) == \A k \in 1..Len(Retained(t)) : NumVal(Retained(t)[k]) <= U16_MAX

\* the allele the grammar reads off t
Expected(t) ==
    LET g == Retained(t)
        opt(k) == IF k <= Len(g) THEN Some(NumVal(g[k])) ELSE None
    IN  Allele(GrammarGene(t), NumVal(g[1]), opt(2), opt(3), opt(4))

ParseDone == pc \in {"returned", "panicked"} /\ pres.tag # "Pending"

\* C1, as stated: parse succeeds on every text that matches the grammar and
\* returns the gene before '*' and the values of the digit groups, in order,
\* with None for the absent groups.
C1_Original ==
    (ParseDone /\ MatchesGrammar(s)) => pres = Ok(Expected(s))

\* C1, amended: the same for every matching text whose retained groups (the
\* first four) each have a value of at most 65535.
C1_ParseRoundTrip ==
    (ParseDone /\ MatchesGrammar(s) /\ FitsU16(s)) => pres = Ok(Expected(s))

\* "A*01:01:38L"-like: three groups with leading zeros and a suffix letter
C1_Witness ==
    /\ ParseDone
    /\ s = <<"A", "*", "0", "1", "2", ":", "6", "5", "5", "3", "5", ":", "1", "L">>
    /\ pres = Ok(Allele(<<"A">>, 12, Some(65535), Some(1), None))

\* C2: a text that does not match the grammar makes parse return the
\* "invalid allele string" error carrying that text, never an Allele.
C2_InvalidFormat ==
    (ParseDone /\ ~MatchesGrammar(s)) => pres = Err("invalid allele string", s)

\* "MICB*012,5"-like: a comma where a colon belongs
C2_Witness ==
    /\ ParseDone
    /\ s = <<"A", "*", "1", ",", "1">>
    /\ pres.tag = "Err"

\* C8: a matching text with a retained group above 65535 makes parse return
\* an error value; it neither returns an Allele nor terminates abnormally.
C8_FieldOverflow ==
    (ParseDone /\ MatchesGrammar(s) /\ ~FitsU16(s)) => pres.tag = "Err"

\* C10, as stated: every matching text with more than four groups parses to
\* the Allele of its first four groups.
C10_Original ==
    (ParseDone /\ MatchesGrammar(s) /\ Len(GrammarGroups(s)) > 4)
        => pres = Ok(Expected(s))

\* C10, amended: every matching text with more than four groups, the first
\* four of which are each at most 65535, parses to the Allele of its first
\* four groups, whatever the fifth and later groups are.
C10_ExtraGroupsDropped ==
    (ParseDone /\ MatchesGrammar(s) /\ Len(GrammarGroups(s)) > 4 /\ FitsU16(s))
        => pres = Ok(Expected(s))

\* five groups, the fifth too large for a u16
C10_Witness ==
    /\ ParseDone
    /\ MatchesGrammar(s)
    /\ Len(GrammarGroups(s)) > 4
    /\ NumVal(GrammarGroups(s)[5]) > U16_MAX
    /\ pres.tag = "Ok"

----------------------------------------------------------------------------
(* The common ancestor of a set of alleles, as the contract states it.      *)

Queried == pc = "returned" /\ lres.tag = "Ok"
Referenced == [k \in 1..Len(eq_classes) |-> alleles[eq_classes[k] + 1]]
SameGene(as) == \A i, j \in 1..Len(as) : as[i].gene = as[j].gene

\* the numeric fields of an allele as four options, f1 first
Fields(a) == <<Some(a.f1), a.f2, a.f3, a.f4>>

\* the number of leading numeric fields on which all of as are equal
Agreed(as) ==
    LET same(k) == \A i, j \in 1..Len(as) : Fields(as[i])[k] = Fields(as[j])[k]
    IN  Cardinality({k \in 1..4 : \A m \in 1..k : same(m)})

\* the shared gene and the agreed leading fields, every later field absent
CommonAncestor(as) ==
    [gene |-> as[1].gene,
     fields |-> [k \in 1..4 |-> IF k <= Agreed(as) THEN Fields(as[1])[k] ELSE None]]

\* C3: two or more ids whose alleles share a gene yield Some of an allele
\* with that gene and exactly the longest leading run of equal fields.
C3_CommonPrefix ==
    (Queried /\ Len(eq_classes) >= 2 /\ SameGene(Referenced))
        => /\ IsSome(lres.val)
           /\ Unwrap(lres.val).gene = CommonAncestor(Referenced).gene
           /\ Fields(Unwrap(lres.val)) = CommonAncestor(Referenced).fields

\* C4: the result is None exactly when the ids are empty or the referenced
\* alleles do not all have the same gene.
C4_NoneIffNoCommonGene ==
    Queried => (lres.val = None <=> (eq_classes = <<>> \/ ~SameGene(Referenced)))

\* C5: a single id yields Some of the allele stored at that index, every
\* field as stored.
C5_SingleIdVerbatim ==
    (Queried /\ Len(eq_classes) = 1)
        => lres.val = Some(alleles[eq_classes[1] + 1])

\* a single id naming an allele with all four fields
C5_Witness ==
    /\ Queried
    /\ eq_classes = <<1>>
    /\ alleles[2] = Allele(<<"B">>, 2, Some(1), Some(1), Some(1))
    /\ lres.val = Some(alleles[2])

\* C6: with r the common ancestor of a non-empty set and m a member of it,
\* the common ancestor of r and m is r again.
C6_Closure ==
    (Queried /\ eq_classes # <<>> /\ IsSome(lres.val))
        => \A k \in 1..Len(eq_classes) :
               lowest_common_allele(<<Unwrap(lres.val), Referenced[k]>>, <<0, 1>>)
                   = lres.val

----------------------------------------------------------------------------
(* read_hla_cds. *)

IngestDone == pc \in {"returned", "panicked"} /\ ires.tag # "Pending"
NoDesc(item) == item.kind = "record" /\ item.desc = None

\* the text of d before its first space
FirstToken(d) ==
    LET spaces == {i \in 1..Len(d) : d[i] = " "}
    IN  IF spaces = {} THEN d ELSE SubSeq(d, 1, Min(spaces) - 1)

\* the record is read and its designation parses
Good(item) ==
    /\ item.kind = "record"
    /\ IsSome(item.desc)
    /\ parse(FirstToken(Unwrap(item.desc))).tag = "Ok"

\* C7, as stated: a stream holding a record without a description makes the
\* call return the "no HLA allele" error.
C7_Original ==
    (IngestDone /\ \E i \in 1..Len(stream) : NoDesc(stream[i]))
        => ires = Err("no HLA allele", <<>>)

\* C7, amended: a record without a description, every record before it read
\* and parsed successfully, makes the call return the "no HLA allele" error
\* and nothing else, and no record after it is taken from the reader.
C7_MissingAnnotation ==
    \A i \in 1..Len(stream) :
        (IngestDone /\ NoDesc(stream[i]) /\ \A j \in 1..(i - 1) : Good(stream[j]))
            => /\ ires = Err("no HLA allele", <<>>)
               /\ pc = "returned"
               /\ pos = i

\* two records read, the third without a description
C7_Witness ==
    /\ IngestDone
    /\ Len(stream) = 3
    /\ Good(stream[1]) /\ Good(stream[2]) /\ NoDesc(stream[3])
    /\ ires = Err("no HLA allele", <<>>)
    /\ Len(tx_ids) = 2

\* the last record of the stream that carries id
LastWith(id) == Max({i \in 1..Len(stream) : stream[i].id = id})

\* C9: on success over n records both lists have length n, entry i of each
\* comes from record i, the designation is the first space-delimited token of
\* the description, and the map holds for each id the allele of the last
\* record carrying it.
C9_OutputsAligned ==
    ires.tag = "Ok" =>
        LET out == ires.val
            n == Len(stream)
        IN  /\ Len(out.seqs) = n
            /\ Len(out.tx_ids) = n
            /\ \A i \in 1..n :
                /\ stream[i].kind = "record"
                /\ out.seqs[i] = from_acgt_bytes_hashn(stream[i].seq, stream[i].id)
                /\ out.tx_ids[i] = FirstToken(Unwrap(stream[i].desc))
            /\ DOMAIN out.tx_to_allele_map = {stream[i].id : i \in 1..n}
            /\ \A id \in DOMAIN out.tx_to_allele_map :
                out.tx_to_allele_map[id]
                    = parse(FirstToken(Unwrap(stream[LastWith(id)].desc))).val

\* three records, the first and the last under one id with different alleles
C9_Witness ==
    /\ ires.tag = "Ok"
    /\ Len(stream) = 3
    /\ stream[1].id = stream[3].id /\ stream[1].id # stream[2].id
    /\ stream[1].desc # stream[3].desc
    /\ stream[1].seq # stream[3].seq
    /\ Len(Unwrap(stream[3].desc)) > Len(ires.val.tx_ids[3])
    /\ ires.val.tx_to_allele_map[stream[3].id].gene = <<"A">>

====
